---- MODULE Spec2Model ----
(***************************************************************************)
(* Model of db/mongodb/mongodb.go: a pool of MongoDB clients kept in a     *)
(* min-heap ordered by reference count (container/heap over ClientHeap),   *)
(* with Ref / UnRef / Close under one sync.Mutex, and the derived          *)
(* operations EnsureCounter / NextSeq / ensureIndex.                       *)
(*                                                                         *)
(* Handles (Client pointers) are numbered 0..n-1 in creation order.  The   *)
(* heap array c.clients is a sequence of handle numbers; Go slot i is      *)
(* clients[i+1].                                                            *)
(***************************************************************************)
EXTENDS Integers, Sequences, FiniteSets, TLC

\* ------------------------------------------------------------- bounds
NumClients == 3      \* clientNum passed to Connect in the pool specifications
MaxPoolCalls == 5    \* Ref, UnRef and Close calls issued on the pool, in all
MaxAnyCalls == 4     \* the same, when two callers release whatever they like
MaxDie == 1          \* connections the network drops, in all
MaxCycles == 16      \* acquire/release cycles of the sequential caller
MaxOpen == 3         \* largest positive clientNum tried by the constructor
SeqClients == 1      \* clientNum of the pool in the counter specification
MaxCalls == 4        \* derived-operation calls issued in the counter specification
FairClients == 1     \* clientNum of the pool in the specification with fairness
MaxFairCalls == 2    \* calls issued in the specification with fairness

\* ---------------------------------------------------- program constants
DefaultClientNum == 100

Procs == {"p1", "p2"}
NoProc == "none"
Nil == -1            \* the nil *Client

VARIABLES
  phase,      \* "unopened" | "connecting" | "open" | "failed": ConnectWithTimeout
  asked,      \* the clientNum argument ConnectWithTimeout was called with
  connectErr, \* TRUE once a mongo.Connect of the constructor failed
  clientNum,  \* ConnectWithTimeout's clientNum (after the reset of line 66)
  resetLog,   \* TRUE once log.Release of line 67 was emitted
  clients,    \* c.clients: the heap array, a sequence of handles
  ref,        \* Client.ref, per handle
  index,      \* Client.index, per handle
  connState,  \* state of the *mongo.Client installed in each handle
  gen,        \* which *mongo.Client is installed: bumped by `s.Client = newClient`
  mutex,      \* holder of c.Mutex, or NoProc
  pc,         \* per caller: where it stands
  op,         \* per caller: the derived operation it is running, or "none"
  s,          \* per caller: local s of Ref / parameter s of UnRef
  ret,        \* per caller: the *Client returned by Ref (Nil on error)
  err,        \* per caller: TRUE when the running call returns an error
  ci,         \* per caller: loop position of Close's range loop
  snap,       \* per caller: ref, index, clients, gen as they were when it took the lock
  io,         \* per caller: the network calls the running Ref has made so far:
              \* "Ping", "Disconnect", "Connect" (lines 110-112)
  failed,     \* handle whose reconnect failed in the last Ref, until a Ref tests
              \* c.clients[0] again; else Nil
  errLog,     \* per caller: handles Close logged "client ref = %v" for
  held,       \* per caller: handles received from Ref and not yet passed to UnRef
  seen,       \* handles some caller ever received from Ref
  served,     \* per handle: times Ref returned it to the sequential caller
  cycles,     \* cycles completed by the sequential caller
  deaths,     \* connections dropped so far
  seq,        \* the counter record's seq in the store; Nil when the record is absent
  seqLog,     \* values NextSeq returned with a nil error, in return order
  seqOut,     \* per caller: res.Seq of the running NextSeq
  calls,      \* calls issued so far
  lost,       \* increments the store applied whose reply never arrived
  indexes     \* uniqueness options of the index created over the key, if any

poolVars == <<clients, ref, index, connState, gen>>
openVars == <<phase, asked, connectErr, clientNum, resetLog>>
procVars == <<pc, op, s, ret, err, ci, snap, io, failed, errLog>>
storeVars == <<seq, seqLog, seqOut, lost, indexes>>
budgetVars == <<deaths, calls>>
vars == <<phase, asked, connectErr, clientNum, resetLog, clients, ref, index,
          connState, gen, mutex, pc, op, s, ret, err, ci, snap, io, failed, errLog,
          held, seen, served, cycles, deaths, seq, seqLog, seqOut, calls, lost,
          indexes>>

Handles == DOMAIN ref
NoSnap == <<>>

\* ------------------------------------------------- ClientHeap (lines 23-50)
\* A heap value is [clients |-> sequence of handles, index |-> handle -> slot].
HeapOf(cl, ix) == [clients |-> cl, index |-> ix]

Len0(h) == Len(h.clients)

\* h[i] of the Go slice
At(h, i) == h.clients[i + 1]

\* Less written with <= : equal refs count as out of order.
Less_OrEqual(h, r, i, j) == r[At(h, i)] <= r[At(h, j)]

Less(h, r, i, j) == r[At(h, i)] < r[At(h, j)]

\* Swap without its last line, h[j].index = j.
Swap_OneIndex(h, i, j) ==
  LET cl == [h.clients EXCEPT ![i + 1] = h.clients[j + 1],
                              ![j + 1] = h.clients[i + 1]]
  IN  [clients |-> cl,
       index |-> [h.index EXCEPT ![cl[i + 1]] = i]]

\* h[i], h[j] = h[j], h[i]; h[i].index = i; h[j].index = j (lines 33-37)
Swap(h, i, j) ==
  LET cl == [h.clients EXCEPT ![i + 1] = h.clients[j + 1],
                              ![j + 1] = h.clients[i + 1]]
  IN  [clients |-> cl,
       index |-> [[h.index EXCEPT ![cl[i + 1]] = i] EXCEPT ![cl[j + 1]] = j]]

\* ---------------------------------------- container/heap (Go standard library)
\* Go's (j - 1) / 2 truncates toward zero, so the parent of slot 0 is slot 0.
Parent(j) == IF j = 0 THEN 0 ELSE (j - 1) \div 2

RECURSIVE up(_, _, _)
up(h, r, j) ==
  LET i == Parent(j)
  IN  IF i = j \/ ~Less(h, r, j, i) THEN h
      ELSE up(Swap(h, i, j), r, i)

RECURSIVE down(_, _, _, _)
down(h, r, i, n) ==
  LET j1 == 2 * i + 1
      j2 == j1 + 1
      j  == IF j2 < n /\ Less(h, r, j2, j1) THEN j2 ELSE j1
  IN  IF j1 >= n THEN h
      ELSE IF ~Less(h, r, j, i) THEN h
      ELSE down(Swap(h, i, j), r, j, n)

\* Fix without its up pass: an element whose key shrank is never moved up.
Fix_DownOnly(h, r, i) == down(h, r, i, Len0(h))

\* heap.Fix: if !down(h, i, n) { up(h, i) }; down reports whether it moved the
\* element, which is whether it swapped at all.
Fix(h, r, i) ==
  LET d == down(h, r, i, Len0(h))
  IN  IF d # h THEN d ELSE up(h, r, i)

RECURSIVE HeapInitFrom(_, _, _)
HeapInitFrom(h, r, i) ==
  IF i < 0 THEN h
  ELSE LET d == down(h, r, i, Len0(h))
       IN  IF Len0(d) = 0 THEN d ELSE HeapInitFrom(d, r, i - 1)

\* heap.Init: for i := n/2 - 1; i >= 0; i-- { down(h, i, n) }
HeapInit(h, r) == HeapInitFrom(h, r, (Len0(h) \div 2) - 1)

\* ------------------------------------------- ConnectWithTimeout (lines 64-88)
\* The pool ConnectWithTimeout returns when all n connection attempts succeed:
\* handle i appended with index i and ref 0 (line 83), then heap.Init (line 85).
NewPool(n) ==
  HeapInit(HeapOf([k \in 1..n |-> k - 1], [h \in 0..(n - 1) |-> h]),
           [h \in 0..(n - 1) |-> 0])

\* Callers and bookkeeping before any call on a pool of n handles.
InitProcs(n) ==
  /\ mutex = NoProc
  /\ pc = [p \in Procs |-> "idle"]
  /\ op = [p \in Procs |-> "none"]
  /\ s = [p \in Procs |-> Nil]
  /\ ret = [p \in Procs |-> Nil]
  /\ err = [p \in Procs |-> FALSE]
  /\ ci = [p \in Procs |-> 0]
  /\ snap = [p \in Procs |-> NoSnap]
  /\ io = [p \in Procs |-> {}]
  /\ failed = Nil
  /\ errLog = [p \in Procs |-> {}]
  /\ held = [p \in Procs |-> [h \in 0..(n - 1) |-> 0]]
  /\ seen = {}
  /\ served = [h \in 0..(n - 1) |-> 0]
  /\ cycles = 0
  /\ deaths = 0

InitStore ==
  /\ seq = Nil
  /\ seqLog = <<>>
  /\ seqOut = [p \in Procs |-> 0]
  /\ calls = 0
  /\ lost = 0
  /\ indexes = {}

\* The state right after Connect(url, n) returned a pool, n > 0.
Opened(n) ==
  /\ phase = "open"
  /\ asked = n
  /\ connectErr = FALSE
  /\ clientNum = n
  /\ resetLog = FALSE
  /\ clients = NewPool(n).clients
  /\ index = NewPool(n).index
  /\ ref = [h \in 0..(n - 1) |-> 0]
  /\ connState = [h \in 0..(n - 1) |-> "live"]
  /\ gen = [h \in 0..(n - 1) |-> 0]
  /\ InitProcs(n)
  /\ InitStore

Init == Opened(NumClients)

\* ------------------------------------------------------------ environment
\* The network or the server drops the connection installed in handle h.
ConnDie(h) ==
  /\ phase = "open"
  /\ connState[h] = "live"
  /\ deaths < MaxDie
  /\ deaths' = deaths + 1
  /\ connState' = [connState EXCEPT ![h] = "dead"]
  /\ UNCHANGED <<openVars, clients, ref, index, gen, mutex, procVars, held, seen,
                 served, cycles, storeVars, calls>>

\* --------------------------------------------------------- Ref (lines 103-123)
HeldCount(p) == LET RECURSIVE Sum(_)
                    Sum(S) == IF S = {} THEN 0
                              ELSE LET h == CHOOSE x \in S : TRUE
                                   IN  held[p][h] + Sum(S \ {h})
                IN  Sum(DOMAIN held[p])

Snapshot == [ref |-> ref, index |-> index, clients |-> clients, gen |-> gen]

\* A caller calls c.Ref() directly.
CallRef(p) ==
  /\ phase = "open"
  /\ pc[p] = "idle"
  /\ calls' = calls + 1
  /\ pc' = [pc EXCEPT ![p] = "RefLock"]
  /\ UNCHANGED <<openVars, poolVars, mutex, op, s, ret, err, ci, snap, io, failed,
                 errLog, held, seen, served, cycles, storeVars, deaths>>

\* c.Lock() (line 104) and s := c.clients[0] (line 107)
RefLock(p) ==
  /\ pc[p] = "RefLock"
  /\ mutex = NoProc
  /\ mutex' = p
  /\ s' = [s EXCEPT ![p] = clients[1]]
  /\ snap' = [snap EXCEPT ![p] = Snapshot]
  /\ UNCHANGED <<io, failed>>
  /\ pc' = [pc EXCEPT ![p] = "RefTest"]
  /\ UNCHANGED <<openVars, poolVars, op, ret, err, ci, errLog, held, seen, served,
                 cycles, storeVars, budgetVars>>

\* Ref with s.ref++ moved inside the `if s.ref == 0` block: a handle that is
\* already borrowed is handed out without being counted.
RefTake_CountIdleOnly(p) ==
  LET r == [ref EXCEPT ![s[p]] = IF @ = 0 THEN @ + 1 ELSE @]
      h == Fix(HeapOf(clients, index), r, 0)
  IN  /\ ref' = r
      /\ clients' = h.clients
      /\ index' = h.index
      /\ ret' = [ret EXCEPT ![p] = s[p]]
      /\ err' = [err EXCEPT ![p] = FALSE]
      /\ pc' = [pc EXCEPT ![p] = "RefUnlock"]
      /\ failed' = Nil

\* s.ref++ ; heap.Fix(&c.clients, 0) ; return s, nil (lines 119-122)
RefTake(p) ==
  LET r == [ref EXCEPT ![s[p]] = @ + 1]
      h == Fix(HeapOf(clients, index), r, 0)
  IN  /\ ref' = r
      /\ clients' = h.clients
      /\ index' = h.index
      /\ ret' = [ret EXCEPT ![p] = s[p]]
      /\ err' = [err EXCEPT ![p] = FALSE]
      /\ pc' = [pc EXCEPT ![p] = "RefUnlock"]
      /\ failed' = Nil

\* Ref that checks a borrowed handle too and installs a new connection in it
\* when the old one is down.
RefSkip_Reconnects(p) ==
  /\ pc[p] = "RefTest"
  /\ ref[s[p]] # 0
  /\ gen' = [gen EXCEPT ![s[p]] = IF connState[s[p]] = "live" THEN @ ELSE @ + 1]
  /\ connState' = [connState EXCEPT ![s[p]] = "live"]
  /\ RefTake(p)
  /\ UNCHANGED <<openVars, mutex, op, s, ci, snap, io, errLog, held, seen, served,
                 cycles, storeVars, budgetVars>>

\* Ref without the test of line 108: s.Ping is called whatever s.ref is.
RefSkip_Pings(p) ==
  /\ pc[p] = "RefTest"
  /\ ref[s[p]] # 0
  /\ connState[s[p]] = "live"
  /\ io' = [io EXCEPT ![p] = {"Ping"}]
  /\ RefTake(p)
  /\ UNCHANGED <<openVars, connState, gen, mutex, op, s, ci, snap, errLog, held, seen,
                 served, cycles, storeVars, budgetVars>>

\* s.ref != 0 (line 108): no Ping; take the handle.
RefSkip(p) ==
  /\ pc[p] = "RefTest"
  /\ ref[s[p]] # 0
  /\ RefTake(p)
  /\ UNCHANGED <<openVars, connState, gen, mutex, op, s, ci, snap, io, errLog, held,
                 seen, served, cycles, storeVars, budgetVars>>

\* s.ref == 0 and s.Ping succeeds (line 110): take the handle.
RefPingOk(p) ==
  /\ pc[p] = "RefTest"
  /\ ref[s[p]] = 0
  /\ connState[s[p]] = "live"
  /\ io' = [io EXCEPT ![p] = {"Ping"}]
  /\ RefTake(p)
  /\ UNCHANGED <<openVars, connState, gen, mutex, op, s, ci, snap, errLog, held, seen,
                 served, cycles, storeVars, budgetVars>>

\* Ref that gives up the lock around the reconnect, so as not to stall the
\* other callers during the network I/O.
RefPingFail_Unlocks(p) ==
  /\ pc[p] = "RefTest"
  /\ ref[s[p]] = 0
  /\ connState[s[p]] # "live"
  /\ connState' = [connState EXCEPT ![s[p]] = "disconnected"]
  /\ io' = [io EXCEPT ![p] = {"Ping", "Disconnect"}]
  /\ failed' = Nil
  /\ mutex' = NoProc
  /\ pc' = [pc EXCEPT ![p] = "RefConnect"]
  /\ UNCHANGED <<openVars, clients, ref, index, gen, op, s, ret, err, ci, snap, errLog,
                 held, seen, served, cycles, storeVars, budgetVars>>

\* s.ref == 0 and s.Ping fails (line 110): s.Disconnect (line 111).
RefPingFail(p) ==
  /\ pc[p] = "RefTest"
  /\ ref[s[p]] = 0
  /\ connState[s[p]] # "live"
  /\ connState' = [connState EXCEPT ![s[p]] = "disconnected"]
  /\ io' = [io EXCEPT ![p] = {"Ping", "Disconnect"}]
  /\ failed' = Nil
  /\ pc' = [pc EXCEPT ![p] = "RefConnect"]
  /\ UNCHANGED <<openVars, clients, ref, index, gen, mutex, op, s, ret, err, ci, snap,
                 errLog, held, seen, served, cycles, storeVars, budgetVars>>

\* mongo.Connect succeeds (line 112): s.Client = newClient (line 116), then take.
RefConnectOk(p) ==
  /\ pc[p] = "RefConnect"
  /\ gen' = [gen EXCEPT ![s[p]] = @ + 1]
  /\ connState' = [connState EXCEPT ![s[p]] = "live"]
  /\ RefTake(p)
  /\ io' = [io EXCEPT ![p] = @ \cup {"Connect"}]
  /\ UNCHANGED <<openVars, mutex, op, s, ci, snap, errLog, held, seen, served, cycles,
                 storeVars, budgetVars>>

\* Ref with s.ref++ and heap.Fix done before the reconnect: the failed call
\* leaves the handle counted.
RefConnectFail_Counted(p) ==
  LET r == [ref EXCEPT ![s[p]] = @ + 1]
      h == Fix(HeapOf(clients, index), r, 0)
  IN  /\ pc[p] = "RefConnect"
      /\ ref' = r
      /\ clients' = h.clients
      /\ index' = h.index
      /\ ret' = [ret EXCEPT ![p] = Nil]
      /\ err' = [err EXCEPT ![p] = TRUE]
      /\ failed' = s[p]
      /\ io' = [io EXCEPT ![p] = @ \cup {"Connect"}]
      /\ pc' = [pc EXCEPT ![p] = "RefUnlock"]
      /\ UNCHANGED <<openVars, connState, gen, mutex, op, s, ci, snap, errLog, held,
                     seen, served, cycles, storeVars, budgetVars>>

\* Ref with an explicit c.Unlock() before its last return instead of the
\* deferred one: the return of lines 113-115 leaves the mutex locked.
RefConnectFail_KeepsLock(p) ==
  /\ pc[p] = "RefConnect"
  /\ ret' = [ret EXCEPT ![p] = Nil]
  /\ err' = [err EXCEPT ![p] = op[p] # "none"]
  /\ failed' = s[p]
  /\ s' = [s EXCEPT ![p] = Nil]
  /\ snap' = [snap EXCEPT ![p] = NoSnap]
  /\ io' = [io EXCEPT ![p] = {}]
  /\ pc' = [pc EXCEPT ![p] = IF op[p] = "none" THEN "idle" ELSE "OpReturn"]
  /\ UNCHANGED <<openVars, poolVars, mutex, op, ci, errLog, held, seen, served, cycles,
                 storeVars, budgetVars>>

\* mongo.Connect fails (lines 113-115): return nil, err.
RefConnectFail(p) ==
  /\ pc[p] = "RefConnect"
  /\ ret' = [ret EXCEPT ![p] = Nil]
  /\ err' = [err EXCEPT ![p] = TRUE]
  /\ failed' = s[p]
  /\ io' = [io EXCEPT ![p] = @ \cup {"Connect"}]
  /\ pc' = [pc EXCEPT ![p] = "RefUnlock"]
  /\ UNCHANGED <<openVars, poolVars, mutex, op, s, ci, snap, errLog, held, seen,
                 served, cycles, storeVars, budgetVars>>

\* The deferred c.Unlock() (line 105) runs and Ref returns to its caller, which
\* now holds the handle (all but the bookkeeping of the sequential caller).
RefReturnBody(p) ==
  /\ pc[p] = "RefUnlock"
  /\ mutex' = NoProc
  /\ IF err[p]
       THEN UNCHANGED <<held, seen>>
       ELSE /\ held' = [held EXCEPT ![p][ret[p]] = @ + 1]
            /\ seen' = seen \cup {ret[p]}
  /\ pc' = [pc EXCEPT ![p] = IF op[p] = "none" THEN "idle"
                             ELSE IF err[p] THEN "OpReturn" ELSE "OpStore"]
  /\ s' = [s EXCEPT ![p] = Nil]
  /\ ret' = [ret EXCEPT ![p] = IF op[p] = "none" THEN Nil ELSE @]
  /\ err' = [err EXCEPT ![p] = IF op[p] = "none" THEN FALSE ELSE @]
  /\ snap' = [snap EXCEPT ![p] = NoSnap]
  /\ io' = [io EXCEPT ![p] = {}]
  /\ UNCHANGED failed
  /\ UNCHANGED <<openVars, poolVars, op, ci, errLog, storeVars, budgetVars>>

RefReturn(p) == RefReturnBody(p) /\ UNCHANGED <<served, cycles>>

\* ------------------------------------------------------- UnRef (lines 126-135)
\* A caller calls c.UnRef(h) with a handle some caller once received from Ref;
\* it gives up one of its own borrows of h when it has one.  s != nil (line 127),
\* so the call goes on to c.Lock().
CallUnRef(p, h) ==
  /\ phase = "open"
  /\ pc[p] = "idle"
  /\ h \in seen
  /\ calls' = calls + 1
  /\ s' = [s EXCEPT ![p] = h]
  /\ held' = [held EXCEPT ![p][h] = IF @ > 0 THEN @ - 1 ELSE @]
  /\ pc' = [pc EXCEPT ![p] = "UnRefLock"]
  /\ UNCHANGED <<openVars, poolVars, mutex, op, ret, err, ci, snap, io, failed, errLog,
                 seen, served, cycles, storeVars, deaths>>

\* The same, by a caller that keeps the contract: it releases a handle it holds.
CallUnRefHeld(p, h) == held[p][h] > 0 /\ CallUnRef(p, h)

\* UnRef with c.Lock() placed before the nil check: the early return leaves
\* the mutex taken.
UnRefNil_Locks(p) ==
  /\ phase = "open"
  /\ pc[p] = "idle"
  /\ mutex = NoProc
  /\ mutex' = p
  /\ calls' = calls + 1
  /\ pc' = [pc EXCEPT ![p] = "UnRefNilRet"]
  /\ UNCHANGED <<openVars, poolVars, op, s, ret, err, ci, snap, io, failed, errLog,
                 held, seen, served, cycles, storeVars, deaths>>

\* A caller calls c.UnRef(nil): if s == nil { return } (lines 127-129).
UnRefNil(p) ==
  /\ phase = "open"
  /\ pc[p] = "idle"
  /\ calls' = calls + 1
  /\ pc' = [pc EXCEPT ![p] = "UnRefNilRet"]
  /\ UNCHANGED <<openVars, poolVars, mutex, op, s, ret, err, ci, snap, io, failed,
                 errLog, held, seen, served, cycles, storeVars, deaths>>

\* UnRef(nil) has returned; the caller goes on.
UnRefNilReturn(p) ==
  /\ pc[p] = "UnRefNilRet"
  /\ pc' = [pc EXCEPT ![p] = "idle"]
  /\ UNCHANGED <<openVars, poolVars, mutex, op, s, ret, err, ci, snap, io, failed,
                 errLog, held, seen, served, cycles, storeVars, budgetVars>>

\* s != nil: c.Lock() (line 130)
UnRefLock(p) ==
  /\ pc[p] = "UnRefLock"
  /\ mutex = NoProc
  /\ mutex' = p
  /\ snap' = [snap EXCEPT ![p] = Snapshot]
  /\ UNCHANGED <<io, failed>>
  /\ pc' = [pc EXCEPT ![p] = "UnRefBody"]
  /\ UNCHANGED <<openVars, poolVars, op, s, ret, err, ci, errLog, held, seen, served,
                 cycles, storeVars, budgetVars>>

\* UnRef without the heap.Fix of line 134: s.ref-- only.
UnRefBody_NoFix(p) ==
  /\ pc[p] = "UnRefBody"
  /\ ref' = [ref EXCEPT ![s[p]] = @ - 1]
  /\ pc' = [pc EXCEPT ![p] = "UnRefUnlock"]
  /\ UNCHANGED <<openVars, clients, index, connState, gen, mutex, op, s, ret, err, ci,
                 snap, io, failed, errLog, held, seen, served, cycles, storeVars,
                 budgetVars>>

\* s.ref-- ; heap.Fix(&c.clients, s.index) (lines 133-134)
UnRefBody(p) ==
  LET r == [ref EXCEPT ![s[p]] = @ - 1]
      h == Fix(HeapOf(clients, index), r, index[s[p]])
  IN  /\ pc[p] = "UnRefBody"
      /\ ref' = r
      /\ clients' = h.clients
      /\ index' = h.index
      /\ pc' = [pc EXCEPT ![p] = "UnRefUnlock"]
      /\ UNCHANGED <<openVars, connState, gen, mutex, op, s, ret, err, ci, snap, io,
                     failed, errLog, held, seen, served, cycles, storeVars,
                     budgetVars>>

\* The deferred c.Unlock() (line 131) runs and UnRef returns.
UnRefReturnBody(p) ==
  /\ pc[p] = "UnRefUnlock"
  /\ mutex' = NoProc
  /\ pc' = [pc EXCEPT ![p] = IF op[p] = "none" THEN "idle" ELSE "OpReturn"]
  /\ s' = [s EXCEPT ![p] = Nil]
  /\ snap' = [snap EXCEPT ![p] = NoSnap]
  /\ UNCHANGED <<openVars, poolVars, op, ret, err, ci, errLog, io, failed, held, seen,
                 storeVars, budgetVars>>

UnRefReturn(p) == UnRefReturnBody(p) /\ UNCHANGED <<served, cycles>>

\* -------------------------------------------------------- Close (lines 91-100)
CallClose(p) ==
  /\ phase = "open"
  /\ pc[p] = "idle"
  /\ calls' = calls + 1
  /\ pc' = [pc EXCEPT ![p] = "CloseLock"]
  /\ UNCHANGED <<openVars, poolVars, mutex, op, s, ret, err, ci, snap, io, failed,
                 errLog, held, seen, served, cycles, storeVars, deaths>>

\* c.Lock() (line 92)
CloseLock(p) ==
  /\ pc[p] = "CloseLock"
  /\ mutex = NoProc
  /\ mutex' = p
  /\ ci' = [ci EXCEPT ![p] = 0]
  /\ errLog' = [errLog EXCEPT ![p] = {}]
  /\ snap' = [snap EXCEPT ![p] = Snapshot]
  /\ UNCHANGED <<io, failed>>
  /\ pc' = [pc EXCEPT ![p] = "CloseLoop"]
  /\ UNCHANGED <<openVars, poolVars, op, s, ret, err, held, seen, served, cycles,
                 storeVars, budgetVars>>

\* Close that also writes off the borrows: s.ref = 0 after the log.Error.
CloseStep_ClearsRef(p) ==
  LET h == clients[ci[p] + 1]
  IN  /\ pc[p] = "CloseLoop"
      /\ ci[p] < Len(clients)
      /\ connState' = [connState EXCEPT ![h] = "disconnected"]
      /\ ref' = [ref EXCEPT ![h] = 0]
      /\ errLog' = [errLog EXCEPT ![p] = IF ref[h] # 0 THEN @ \cup {h} ELSE @]
      /\ ci' = [ci EXCEPT ![p] = @ + 1]
      /\ pc' = [pc EXCEPT ![p] = IF ci[p] + 1 < Len(clients) THEN "CloseLoop"
                                 ELSE "CloseUnlock"]
      /\ UNCHANGED <<openVars, clients, index, gen, mutex, op, s, ret, err, snap, io,
                     failed, held, seen, served, cycles, storeVars, budgetVars>>

\* Close that logs and skips a handle whose ref != 0 instead of disconnecting it.
CloseStep_SkipBusy(p) ==
  LET h == clients[ci[p] + 1]
  IN  /\ pc[p] = "CloseLoop"
      /\ ci[p] < Len(clients)
      /\ connState' = [connState EXCEPT ![h] = IF ref[h] # 0 THEN @ ELSE "disconnected"]
      /\ errLog' = [errLog EXCEPT ![p] = IF ref[h] # 0 THEN @ \cup {h} ELSE @]
      /\ ci' = [ci EXCEPT ![p] = @ + 1]
      /\ pc' = [pc EXCEPT ![p] = IF ci[p] + 1 < Len(clients) THEN "CloseLoop"
                                 ELSE "CloseUnlock"]
      /\ UNCHANGED <<openVars, clients, ref, index, gen, mutex, op, s, ret, err, snap,
                     io, failed, held, seen, served, cycles, storeVars, budgetVars>>

\* One iteration of the range loop (lines 94-99): Disconnect, and log.Error
\* when s.ref != 0.
CloseStep(p) ==
  LET h == clients[ci[p] + 1]
  IN  /\ pc[p] = "CloseLoop"
      /\ ci[p] < Len(clients)
      /\ connState' = [connState EXCEPT ![h] = "disconnected"]
      /\ errLog' = [errLog EXCEPT ![p] = IF ref[h] # 0 THEN @ \cup {h} ELSE @]
      /\ ci' = [ci EXCEPT ![p] = @ + 1]
      /\ pc' = [pc EXCEPT ![p] = IF ci[p] + 1 < Len(clients) THEN "CloseLoop"
                                 ELSE "CloseUnlock"]
      /\ UNCHANGED <<openVars, clients, ref, index, gen, mutex, op, s, ret, err, snap,
                     io, failed, held, seen, served, cycles, storeVars, budgetVars>>

\* The deferred c.Unlock() (line 93) runs and Close returns.
CloseReturn(p) ==
  /\ pc[p] = "CloseUnlock"
  /\ mutex' = NoProc
  /\ ci' = [ci EXCEPT ![p] = 0]
  /\ errLog' = [errLog EXCEPT ![p] = {}]
  /\ snap' = [snap EXCEPT ![p] = NoSnap]
  /\ UNCHANGED <<io, failed>>
  /\ pc' = [pc EXCEPT ![p] = "idle"]
  /\ UNCHANGED <<openVars, poolVars, op, s, ret, err, held, seen, served, cycles,
                 storeVars, budgetVars>>

\* ---------------------------------------------------- the sequential caller
\* One caller runs acquire-then-immediately-release cycles, every probe
\* succeeding, and counts how often Ref hands it each handle.
SeqCaller == "p1"

CycleCallRef ==
  /\ cycles < MaxCycles
  /\ HeldCount(SeqCaller) = 0
  /\ CallRef(SeqCaller)

CycleRefReturn ==
  /\ RefReturnBody(SeqCaller)
  /\ served' = [served EXCEPT ![ret[SeqCaller]] = @ + 1]
  /\ UNCHANGED cycles

CycleCallUnRef == \E h \in Handles : CallUnRefHeld(SeqCaller, h)

CycleUnRefReturn ==
  /\ UnRefReturnBody(SeqCaller)
  /\ cycles' = cycles + 1
  /\ UNCHANGED served

\* ------------------------------- ConnectWithTimeout, step by step (lines 64-88)
OpenArgs == {-1, 0} \cup (1..MaxOpen)

\* ConnectWithTimeout(url, n, ...) is called: lines 65-76.
OpenCall(n) ==
  /\ phase = "unopened"
  /\ asked' = n
  /\ clientNum' = IF n <= 0 THEN DefaultClientNum ELSE n
  /\ resetLog' = (n <= 0)
  /\ phase' = "connecting"
  /\ UNCHANGED <<connectErr, poolVars, mutex, procVars, held, seen, served, cycles,
                 storeVars, budgetVars>>

\* The handle the loop appends in iteration i = len(c.clients) (line 83).
Appended(f, v) == [h \in (DOMAIN f) \cup {Len(clients)} |->
                     IF h = Len(clients) THEN v ELSE f[h]]

\* One iteration of the loop whose mongo.Connect succeeds (lines 78-84).
OpenConnectOk ==
  /\ phase = "connecting"
  /\ Len(clients) < clientNum
  /\ clients' = Append(clients, Len(clients))
  /\ index' = Appended(index, Len(clients))
  /\ ref' = Appended(ref, 0)
  /\ connState' = Appended(connState, "live")
  /\ gen' = Appended(gen, 0)
  /\ UNCHANGED <<openVars, mutex, procVars, held, seen, served, cycles, storeVars,
                 budgetVars>>

\* The constructor that leaves its loop on a failed mongo.Connect and returns
\* the pool built so far.
OpenConnectFail_Partial ==
  LET h == HeapInit(HeapOf(clients, index), ref)
  IN  /\ phase = "connecting"
      /\ Len(clients) < clientNum
      /\ connectErr' = TRUE
      /\ clients' = h.clients
      /\ index' = h.index
      /\ phase' = "open"
      /\ UNCHANGED <<asked, clientNum, resetLog, ref, connState, gen, mutex, procVars,
                     held, seen, served, cycles, storeVars, budgetVars>>

\* One iteration whose mongo.Connect fails: return nil, err (lines 80-82).
OpenConnectFail ==
  /\ phase = "connecting"
  /\ Len(clients) < clientNum
  /\ connectErr' = TRUE
  /\ phase' = "failed"
  /\ UNCHANGED <<asked, clientNum, resetLog, poolVars, mutex, procVars, held, seen,
                 served, cycles, storeVars, budgetVars>>

\* The loop is over: heap.Init(&c.clients) ; return c, nil (lines 85-87).
OpenInit ==
  LET h == HeapInit(HeapOf(clients, index), ref)
  IN  /\ phase = "connecting"
      /\ Len(clients) = clientNum
      /\ clients' = h.clients
      /\ index' = h.index
      /\ phase' = "open"
      /\ UNCHANGED <<asked, connectErr, clientNum, resetLog, ref, connState, gen,
                     mutex, procVars, held, seen, served, cycles, storeVars,
                     budgetVars>>

\* --------------------- EnsureCounter, NextSeq, ensureIndex (lines 138-207)
\* A caller calls a derived operation, which first calls c.Ref()
\* (lines 139, 159, 189).
CallOp(p, o) ==
  /\ phase = "open"
  /\ pc[p] = "idle"
  /\ calls' = calls + 1
  /\ op' = [op EXCEPT ![p] = o]
  /\ pc' = [pc EXCEPT ![p] = "RefLock"]
  /\ UNCHANGED <<openVars, poolVars, mutex, s, ret, err, ci, snap, io, failed, errLog,
                 held, seen, served, cycles, storeVars, deaths>>

CallEnsureCounter(p) == CallOp(p, "EnsureCounter")

CallNextSeq(p) == CallOp(p, "NextSeq")

\* EnsureIndex and EnsureUniqueIndex (lines 179-186)
CallEnsureIndex(p, unique) ==
  CallOp(p, IF unique THEN "EnsureUniqueIndex" ELSE "EnsureIndex")

\* The round trip is over and the function returns: the deferred c.UnRef(s)
\* (lines 143, 163, 193) is called with the handle Ref returned.
DeferUnRef(p) ==
  /\ s' = [s EXCEPT ![p] = ret[p]]
  /\ held' = [held EXCEPT ![p][ret[p]] = @ - 1]
  /\ pc' = [pc EXCEPT ![p] = "UnRefLock"]

AtStore(p, ops) == pc[p] = "OpStore" /\ op[p] \in ops

\* The connection the round trip of caller p goes over is up.
Up(p) == connState[ret[p]] = "live"

\* The derived operations with c.UnRef(s) called at the end of the success
\* path instead of deferred: an error return skips it.
StoreNoEffect_NoDefer(p, e) ==
  /\ err' = [err EXCEPT ![p] = e]
  /\ IF e THEN /\ pc' = [pc EXCEPT ![p] = "OpReturn"]
               /\ UNCHANGED <<s, held>>
          ELSE DeferUnRef(p)
  /\ UNCHANGED <<openVars, clients, ref, index, connState, gen, mutex, op, ret, ci,
                 snap, io, failed, errLog, seen, served, cycles, storeVars,
                 budgetVars>>

\* A round trip with no effect on the store that ends with error e.
StoreNoEffect(p, e) ==
  /\ err' = [err EXCEPT ![p] = e]
  /\ DeferUnRef(p)
  /\ UNCHANGED <<openVars, clients, ref, index, connState, gen, mutex, op, ret, ci,
                 snap, io, failed, errLog, seen, served, cycles, storeVars,
                 budgetVars>>

\* The connection drops after the store applied the write: the caller gets an
\* error for a write that took effect.
ReplyLost(p) ==
  /\ deaths < MaxDie
  /\ deaths' = deaths + 1
  /\ connState' = [connState EXCEPT ![ret[p]] = "dead"]
  /\ err' = [err EXCEPT ![p] = TRUE]
  /\ DeferUnRef(p)

\* InsertOne{_id: id, seq: 0} inserts the record (lines 146-154).
EnsureCounterInsert(p) ==
  /\ AtStore(p, {"EnsureCounter"})
  /\ Up(p)
  /\ seq = Nil
  /\ seq' = 0
  /\ err' = [err EXCEPT ![p] = FALSE]
  /\ DeferUnRef(p)
  /\ UNCHANGED <<openVars, clients, ref, index, connState, gen, mutex, op, ret, ci,
                 snap, io, failed, errLog, seen, served, cycles, seqLog, seqOut, lost,
                 indexes, budgetVars>>

\* The same, the reply being lost.
EnsureCounterLost(p) ==
  /\ AtStore(p, {"EnsureCounter"})
  /\ Up(p)
  /\ seq = Nil
  /\ seq' = 0
  /\ ReplyLost(p)
  /\ UNCHANGED <<openVars, clients, ref, index, gen, mutex, op, ret, ci, snap, io,
                 failed, errLog, seen, served, cycles, seqLog, seqOut, calls, lost,
                 indexes>>

\* EnsureCounter as an upsert: meeting the record it writes seq 0 again.
EnsureCounterDuplicate_Reseed(p) ==
  /\ AtStore(p, {"EnsureCounter"})
  /\ Up(p)
  /\ seq # Nil
  /\ seq' = 0
  /\ err' = [err EXCEPT ![p] = FALSE]
  /\ DeferUnRef(p)
  /\ UNCHANGED <<openVars, clients, ref, index, connState, gen, mutex, op, ret, ci,
                 snap, io, failed, errLog, seen, served, cycles, seqLog, seqOut, lost,
                 indexes, budgetVars>>

\* InsertOne meets the record: mongo.IsDuplicateKeyError, return nil
\* (lines 150-151).
EnsureCounterDuplicate(p) ==
  /\ AtStore(p, {"EnsureCounter"})
  /\ Up(p)
  /\ seq # Nil
  /\ StoreNoEffect(p, FALSE)

\* InsertOne fails otherwise: return err (line 153).
EnsureCounterFail(p) ==
  /\ AtStore(p, {"EnsureCounter"})
  /\ ~Up(p)
  /\ StoreNoEffect(p, TRUE)

\* NextSeq with the default ReturnDocument (Before): the record as it was
\* before the $inc is decoded.
NextSeqOk_ReturnBefore(p) ==
  /\ AtStore(p, {"NextSeq"})
  /\ Up(p)
  /\ seq # Nil
  /\ seq' = seq + 1
  /\ seqOut' = [seqOut EXCEPT ![p] = seq]
  /\ seqLog' = Append(seqLog, seq)
  /\ err' = [err EXCEPT ![p] = FALSE]
  /\ DeferUnRef(p)
  /\ UNCHANGED <<openVars, clients, ref, index, connState, gen, mutex, op, ret, ci,
                 snap, io, failed, errLog, seen, served, cycles, lost, indexes,
                 budgetVars>>

\* FindOneAndUpdate {$inc: {seq: 1}} with ReturnDocument After, decoded into
\* res (lines 165-175): atomic in the store.
NextSeqOk(p) ==
  /\ AtStore(p, {"NextSeq"})
  /\ Up(p)
  /\ seq # Nil
  /\ seq' = seq + 1
  /\ seqOut' = [seqOut EXCEPT ![p] = seq + 1]
  /\ seqLog' = Append(seqLog, seq + 1)
  /\ err' = [err EXCEPT ![p] = FALSE]
  /\ DeferUnRef(p)
  /\ UNCHANGED <<openVars, clients, ref, index, connState, gen, mutex, op, ret, ci,
                 snap, io, failed, errLog, seen, served, cycles, lost, indexes,
                 budgetVars>>

\* The same, the reply being lost: res.Seq stays 0 and err is set.
NextSeqLost(p) ==
  /\ AtStore(p, {"NextSeq"})
  /\ Up(p)
  /\ seq # Nil
  /\ seq' = seq + 1
  /\ lost' = lost + 1
  /\ ReplyLost(p)
  /\ UNCHANGED <<openVars, clients, ref, index, gen, mutex, op, ret, ci, snap, io,
                 failed, errLog, seen, served, cycles, seqLog, seqOut, calls, indexes>>

\* No record matches the filter: Decode returns mongo.ErrNoDocuments.
NextSeqNoDocument(p) ==
  /\ AtStore(p, {"NextSeq"})
  /\ Up(p)
  /\ seq = Nil
  /\ StoreNoEffect(p, TRUE)

\* The round trip fails: return 0, err.
NextSeqFail(p) ==
  /\ AtStore(p, {"NextSeq"})
  /\ ~Up(p)
  /\ StoreNoEffect(p, TRUE)

IndexOps == {"EnsureIndex", "EnsureUniqueIndex"}

Unique(p) == op[p] = "EnsureUniqueIndex"

\* Indexes().CreateOne creates the index or finds the same one (lines 195-206).
EnsureIndexOk(p) ==
  /\ AtStore(p, IndexOps)
  /\ Up(p)
  /\ indexes \subseteq {Unique(p)}
  /\ indexes' = {Unique(p)}
  /\ err' = [err EXCEPT ![p] = FALSE]
  /\ DeferUnRef(p)
  /\ UNCHANGED <<openVars, clients, ref, index, connState, gen, mutex, op, ret, ci,
                 snap, io, failed, errLog, seen, served, cycles, seq, seqLog, seqOut,
                 lost, budgetVars>>

\* CreateOne fails: the key is indexed with the other uniqueness option, or
\* the round trip fails.
EnsureIndexFail(p) ==
  /\ AtStore(p, IndexOps)
  /\ ~Up(p) \/ ~(indexes \subseteq {Unique(p)})
  /\ StoreNoEffect(p, TRUE)

\* The derived operation returns to its caller: after the deferred UnRef, or
\* at once with the error of Ref (lines 140-142, 160-162, 190-192).
OpReturn(p) ==
  /\ pc[p] = "OpReturn"
  /\ pc' = [pc EXCEPT ![p] = "idle"]
  /\ op' = [op EXCEPT ![p] = "none"]
  /\ ret' = [ret EXCEPT ![p] = Nil]
  /\ err' = [err EXCEPT ![p] = FALSE]
  /\ seqOut' = [seqOut EXCEPT ![p] = 0]
  /\ UNCHANGED <<openVars, poolVars, mutex, s, ci, snap, io, failed, errLog, held,
                 seen, served, cycles, seq, seqLog, lost, indexes, budgetVars>>

\* ---------------------------------------------------------- specifications
\* Callers use the pool concurrently and may release out of contract.
Next ==
  \/ \E p \in Procs : calls < MaxAnyCalls /\ CallRef(p)
  \/ \E p \in Procs : RefLock(p)
  \/ \E p \in Procs : RefSkip(p)
  \/ \E p \in Procs : RefPingOk(p)
  \/ \E p \in Procs : RefPingFail(p)
  \/ \E p \in Procs : RefConnectOk(p)
  \/ \E p \in Procs : RefConnectFail(p)
  \/ \E p \in Procs : RefReturn(p)
  \/ \E p \in Procs : \E h \in Handles : calls < MaxAnyCalls /\ CallUnRef(p, h)
  \/ \E p \in Procs : calls < MaxAnyCalls /\ UnRefNil(p)
  \/ \E p \in Procs : UnRefNilReturn(p)
  \/ \E p \in Procs : UnRefLock(p)
  \/ \E p \in Procs : UnRefBody(p)
  \/ \E p \in Procs : UnRefReturn(p)
  \/ \E p \in Procs : calls < MaxAnyCalls /\ CallClose(p)
  \/ \E p \in Procs : CloseLock(p)
  \/ \E p \in Procs : CloseStep(p)
  \/ \E p \in Procs : CloseReturn(p)
  \/ \E h \in Handles : ConnDie(h)

Spec == Init /\ [][Next]_vars

\* Callers use the pool concurrently and keep the contract: a caller releases
\* only handles it holds, once per borrow.
NextContract ==
  \/ \E p \in Procs : calls < MaxPoolCalls /\ CallRef(p)
  \/ \E p \in Procs : RefLock(p)
  \/ \E p \in Procs : RefSkip(p)
  \/ \E p \in Procs : RefPingOk(p)
  \/ \E p \in Procs : RefPingFail(p)
  \/ \E p \in Procs : RefConnectOk(p)
  \/ \E p \in Procs : RefConnectFail(p)
  \/ \E p \in Procs : RefReturn(p)
  \/ \E p \in Procs : \E h \in Handles : calls < MaxPoolCalls /\ CallUnRefHeld(p, h)
  \/ \E p \in Procs : calls < MaxPoolCalls /\ UnRefNil(p)
  \/ \E p \in Procs : UnRefNilReturn(p)
  \/ \E p \in Procs : UnRefLock(p)
  \/ \E p \in Procs : UnRefBody(p)
  \/ \E p \in Procs : UnRefReturn(p)
  \/ \E p \in Procs : calls < MaxPoolCalls /\ CallClose(p)
  \/ \E p \in Procs : CloseLock(p)
  \/ \E p \in Procs : CloseStep(p)
  \/ \E p \in Procs : CloseReturn(p)
  \/ \E h \in Handles : ConnDie(h)

SpecContract == Init /\ [][NextContract]_vars

\* The sequential caller alone, no connection failing.
NextCycle ==
  \/ CycleCallRef
  \/ RefLock(SeqCaller)
  \/ RefPingOk(SeqCaller)
  \/ CycleRefReturn
  \/ CycleCallUnRef
  \/ UnRefLock(SeqCaller)
  \/ UnRefBody(SeqCaller)
  \/ CycleUnRefReturn

SpecCycle == Init /\ [][NextCycle]_vars

\* One caller uses the pool, one call after the other, and releases whatever
\* it likes, while connections drop.
NextRetry ==
  \/ calls < MaxPoolCalls /\ CallRef(SeqCaller)
  \/ RefLock(SeqCaller)
  \/ RefSkip(SeqCaller)
  \/ RefPingOk(SeqCaller)
  \/ RefPingFail(SeqCaller)
  \/ RefConnectOk(SeqCaller)
  \/ RefConnectFail(SeqCaller)
  \/ RefReturn(SeqCaller)
  \/ \E h \in Handles : calls < MaxPoolCalls /\ CallUnRef(SeqCaller, h)
  \/ UnRefLock(SeqCaller)
  \/ UnRefBody(SeqCaller)
  \/ UnRefReturn(SeqCaller)
  \/ \E h \in Handles : ConnDie(h)

SpecRetry == Init /\ [][NextRetry]_vars

\* Before ConnectWithTimeout is called: no pool yet.
InitOpen ==
  /\ phase = "unopened"
  /\ asked = 0
  /\ connectErr = FALSE
  /\ clientNum = 0
  /\ resetLog = FALSE
  /\ clients = <<>>
  /\ index = <<>>
  /\ ref = <<>>
  /\ connState = <<>>
  /\ gen = <<>>
  /\ InitProcs(0)
  /\ InitStore

NextOpen ==
  \/ \E n \in OpenArgs : OpenCall(n)
  \/ OpenConnectOk
  \/ OpenConnectFail
  \/ OpenInit

SpecOpen == InitOpen /\ [][NextOpen]_vars

\* Callers run the derived operations concurrently on a pool of SeqClients
\* handles; the counter record does not exist at first.
InitSeq == Opened(SeqClients)

NextSeqSpec ==
  \/ \E p \in Procs : calls < MaxCalls /\ CallEnsureCounter(p)
  \/ \E p \in Procs : calls < MaxCalls /\ CallNextSeq(p)
  \/ \E p \in Procs : \E u \in BOOLEAN : calls < MaxCalls /\ CallEnsureIndex(p, u)
  \/ \E p \in Procs : RefLock(p)
  \/ \E p \in Procs : RefSkip(p)
  \/ \E p \in Procs : RefPingOk(p)
  \/ \E p \in Procs : RefPingFail(p)
  \/ \E p \in Procs : RefConnectOk(p)
  \/ \E p \in Procs : RefConnectFail(p)
  \/ \E p \in Procs : RefReturn(p)
  \/ \E p \in Procs : EnsureCounterInsert(p)
  \/ \E p \in Procs : EnsureCounterLost(p)
  \/ \E p \in Procs : EnsureCounterDuplicate(p)
  \/ \E p \in Procs : EnsureCounterFail(p)
  \/ \E p \in Procs : NextSeqOk(p)
  \/ \E p \in Procs : NextSeqLost(p)
  \/ \E p \in Procs : NextSeqNoDocument(p)
  \/ \E p \in Procs : NextSeqFail(p)
  \/ \E p \in Procs : EnsureIndexOk(p)
  \/ \E p \in Procs : EnsureIndexFail(p)
  \/ \E p \in Procs : UnRefLock(p)
  \/ \E p \in Procs : UnRefBody(p)
  \/ \E p \in Procs : UnRefReturn(p)
  \/ \E p \in Procs : OpReturn(p)
  \/ \E h \in Handles : ConnDie(h)

SpecSeq == InitSeq /\ [][NextSeqSpec]_vars

\* Callers call Ref, UnRef, Close, EnsureCounter and NextSeq concurrently on a
\* pool of FairClients handles.  A call once made goes on: the goroutine running
\* it is scheduled again and again, every Ping, Disconnect, mongo.Connect and
\* store round trip returns, and a goroutine waiting in c.Lock() gets the mutex
\* once it stays free.  Nothing obliges a caller to make a call, or a
\* connection to drop.
InitFair == Opened(FairClients)

NextFair ==
  \/ \E p \in Procs : calls < MaxFairCalls /\ CallRef(p)
  \/ \E p \in Procs : \E h \in Handles : calls < MaxFairCalls /\ CallUnRef(p, h)
  \/ \E p \in Procs : calls < MaxFairCalls /\ CallClose(p)
  \/ \E p \in Procs : calls < MaxFairCalls /\ CallEnsureCounter(p)
  \/ \E p \in Procs : calls < MaxFairCalls /\ CallNextSeq(p)
  \/ \E p \in Procs : RefLock(p)
  \/ \E p \in Procs : RefSkip(p)
  \/ \E p \in Procs : RefPingOk(p)
  \/ \E p \in Procs : RefPingFail(p)
  \/ \E p \in Procs : RefConnectOk(p)
  \/ \E p \in Procs : RefConnectFail(p)
  \/ \E p \in Procs : RefReturn(p)
  \/ \E p \in Procs : UnRefLock(p)
  \/ \E p \in Procs : UnRefBody(p)
  \/ \E p \in Procs : UnRefReturn(p)
  \/ \E p \in Procs : CloseLock(p)
  \/ \E p \in Procs : CloseStep(p)
  \/ \E p \in Procs : CloseReturn(p)
  \/ \E p \in Procs : EnsureCounterInsert(p)
  \/ \E p \in Procs : EnsureCounterLost(p)
  \/ \E p \in Procs : EnsureCounterDuplicate(p)
  \/ \E p \in Procs : EnsureCounterFail(p)
  \/ \E p \in Procs : NextSeqOk(p)
  \/ \E p \in Procs : NextSeqLost(p)
  \/ \E p \in Procs : NextSeqNoDocument(p)
  \/ \E p \in Procs : NextSeqFail(p)
  \/ \E p \in Procs : OpReturn(p)
  \/ \E h \in Handles : ConnDie(h)

\* The next step of the call caller p is running.
Step(p) ==
  \/ RefLock(p) \/ RefSkip(p) \/ RefPingOk(p) \/ RefPingFail(p)
  \/ RefConnectOk(p) \/ RefConnectFail(p) \/ RefReturn(p)
  \/ UnRefLock(p) \/ UnRefBody(p) \/ UnRefReturn(p)
  \/ CloseLock(p) \/ CloseStep(p) \/ CloseReturn(p)
  \/ EnsureCounterInsert(p) \/ EnsureCounterLost(p) \/ EnsureCounterDuplicate(p)
  \/ EnsureCounterFail(p)
  \/ NextSeqOk(p) \/ NextSeqLost(p) \/ NextSeqNoDocument(p) \/ NextSeqFail(p)
  \/ OpReturn(p)

SpecFair == InitFair /\ [][NextFair]_vars /\ \A p \in Procs : WF_vars(Step(p))

\* ------------------------------------------------------------------ claims
Slots == 1..Len(clients)

\* C1. Heap invariant: in every state reachable by acquire (Ref) and release
\* (UnRef) calls, the handle at position 0 has a ref that is <= the ref of
\* every other handle in the structure.
C1_HeapInvariant ==
  phase = "open" => \A k \in Slots : ref[clients[1]] <= ref[clients[k]]

\* C1 witness: after borrows and an unmatched release the refs differ (one
\* below zero, one above) and every call has returned.
C1_Witness ==
  /\ \A p \in Procs : pc[p] = "idle"
  /\ \E h \in Handles : ref[h] < 0
  /\ \E h \in Handles : ref[h] > 0
  /\ clients # NewPool(NumClients).clients

\* C2. Non-negativity: no handle's ref is ever negative, whatever the release
\* pattern, a release without a matching borrow or a double release included.
C2_NonNegative == \A h \in Handles : ref[h] >= 0

\* C4. Every successful Ref returns a handle whose connection is live at the
\* moment the call's result is decided, connections dying at any time.
C4_ReturnsLive ==
  [][\A p \in Procs :
       (pc[p] # "RefUnlock" /\ pc'[p] = "RefUnlock" /\ ~err'[p])
         => connState'[ret'[p]] = "live"]_vars

\* C5. Reconnect-then-fail: when Ref found the position-0 handle with ref 0,
\* its Ping failed and mongo.Connect failed too, Ref returns an error and no
\* handle, and every ref, index and the heap array are as before the call.
C5_FailedRefChangesNothing ==
  \A p \in Procs :
    (pc[p] = "RefUnlock" /\ err[p]) =>
      /\ ret[p] = Nil
      /\ ref = snap[p].ref
      /\ index = snap[p].index
      /\ clients = snap[p].clients

\* C5 witness: a Ref is returning the error of a failed reconnect of the idle
\* position-0 handle.
C5_Witness ==
  \E p \in Procs :
    /\ pc[p] = "RefUnlock" /\ err[p]
    /\ snap[p].clients[1] = s[p] /\ snap[p].ref[s[p]] = 0
    /\ connState[s[p]] = "disconnected"

\* Borrows of h that are counted in ref[h]: those callers hold, those a Ref has
\* counted and is about to return, and those whose UnRef has not yet decremented.
Outstanding(h) ==
  LET RECURSIVE Sum(_)
      Sum(S) == IF S = {} THEN 0
                ELSE LET p == CHOOSE x \in S : TRUE
                     IN  held[p][h]
                         + (IF pc[p] = "RefUnlock" /\ ~err[p] /\ ret[p] = h THEN 1 ELSE 0)
                         + (IF pc[p] \in {"UnRefLock", "UnRefBody"} /\ s[p] = h THEN 1 ELSE 0)
                         + Sum(S \ {p})
  IN  Sum(Procs)

\* C6. Under any interleaving of Ref and UnRef by callers that release only
\* what they borrowed, once per borrow, each handle's ref equals the number of
\* its outstanding borrows: no increment or decrement is lost.
C6_RefCountsBorrows == \A h \in Handles : ref[h] = Outstanding(h)

\* C6 witness: both callers hold the same handle, and one of them is in the
\* middle of releasing another handle.
C6_Witness ==
  \E h \in Handles, k \in Handles :
    /\ h # k
    /\ \A p \in Procs : held[p][h] > 0
    /\ \E p \in Procs : pc[p] = "UnRefUnlock" /\ s[p] = k

\* C7. Close disconnects the connection of every handle, whatever the refs
\* are, and logs a diagnostic for exactly the handles whose ref != 0: when it
\* returns no handle is left connected.
C7_CloseDisconnectsAll ==
  \A p \in Procs :
    pc[p] = "CloseUnlock" =>
      /\ \A h \in Handles : connState[h] = "disconnected"
      /\ errLog[p] = {h \in Handles : ref[h] # 0}

\* C7 witness: a Close is returning while a handle is still borrowed.
C7_Witness ==
  \E p \in Procs :
    /\ pc[p] = "CloseUnlock"
    /\ \E h \in Handles : ref[h] > 0 /\ h \in errLog[p]
    /\ \E h \in Handles : ref[h] = 0

\* C9. UnRef(nil) is a no-op: it returns without taking the lock and leaves
\* every ref, index, connection and the heap array unchanged.
C9_UnRefNilNoOp ==
  [][\A p \in Procs :
       (pc[p] # "UnRefNilRet" /\ pc'[p] = "UnRefNilRet")
         => UNCHANGED <<clients, ref, index, connState, gen, mutex>>]_vars

\* C9 witness: UnRef(nil) has returned while another caller holds the lock.
C9_Witness ==
  \E p \in Procs : pc[p] = "UnRefNilRet" /\ mutex \notin {NoProc, p}


Abs(x) == IF x < 0 THEN -x ELSE x

\* The handles on the leftmost root-to-leaf path of the freshly built heap:
\* slots 0, 1, 3, 7, ... below n.
RECURSIVE LeftSpine(_, _)
LeftSpine(i, n) == IF i >= n THEN {} ELSE {i} \cup LeftSpine(2 * i + 1, n)

\* C3 as stated. Load spreading: over any number of sequential cycles of one
\* Ref immediately followed by UnRef of the handle it returned, all probes
\* succeeding, the numbers of times any two handles were returned differ by at
\* most 1.
C3_EvenSpread ==
  \A h \in Handles, k \in Handles : Abs(served[h] - served[k]) <= 1

\* C3 amended. Over such cycles Ref always returns a handle whose ref was 0,
\* and it rotates among the handles created in slots 0, 1, 3, 7, ... (the
\* heap's leftmost path): the return counts of any two of those differ by at
\* most 1, and every other handle is never returned.
C3_SpreadOverLeftSpine ==
  /\ \A h \in LeftSpine(0, NumClients), k \in LeftSpine(0, NumClients) :
       Abs(served[h] - served[k]) <= 1
  /\ \A h \in Handles \ LeftSpine(0, NumClients) : served[h] = 0
  /\ pc[SeqCaller] = "RefUnlock" => snap[SeqCaller].ref[ret[SeqCaller]] = 0

\* C3 witness: after more cycles than twice the pool size a handle was
\* returned three times and another never.
C3_Witness ==
  /\ cycles > 2 * NumClients
  /\ pc[SeqCaller] = "idle"
  /\ \E h \in Handles : served[h] >= 3
  /\ \E h \in Handles : served[h] = 0

\* C8. Construction is all-or-nothing: ConnectWithTimeout returns an error and
\* no pool when a connection attempt failed, and otherwise a pool of exactly
\* clientNum handles (100 when the clientNum asked for is <= 0), each with ref
\* 0 and an index equal to its slot.
C8_AllOrNothing ==
  /\ connectErr /\ phase # "connecting" => phase = "failed"
  /\ phase = "failed" => connectErr
  /\ phase = "open" =>
       /\ Len(clients) = (IF asked <= 0 THEN 100 ELSE asked)
       /\ Handles = 0..(Len(clients) - 1)
       /\ {clients[k] : k \in Slots} = Handles
       /\ \A k \in Slots : index[clients[k]] = k - 1
       /\ \A h \in Handles : ref[h] = 0

\* C8 witness: the constructor returned a pool for a clientNum <= 0.
C8_Witness == phase = "open" /\ asked <= 0 /\ Len(clients) = DefaultClientNum

\* A NextSeq of caller p is returning seqOut[p] with a nil error.
Returning(p) == op[p] = "NextSeq" /\ pc[p] = "OpReturn" /\ ~err[p]

\* C10. Sequence monotonicity: on an identity seeded by EnsureCounter, NextSeq
\* calls whose replies all arrive return 1, 2, 3, ... in that order, and over
\* any interleaving of NextSeq calls by concurrent callers no value is ever
\* returned twice.
C10_SeqMonotone ==
  /\ \A i \in 1..Len(seqLog), j \in 1..Len(seqLog) : i < j => seqLog[i] < seqLog[j]
  /\ lost = 0 => \A k \in 1..Len(seqLog) : seqLog[k] = k
  /\ \A p \in Procs :
       Returning(p) =>
         /\ \E k \in 1..Len(seqLog) : seqLog[k] = seqOut[p]
         /\ \A q \in Procs \ {p} : Returning(q) => seqOut[q] # seqOut[p]

\* C10 witness: after EnsureCounter three NextSeq calls have returned 1, 2 and
\* 3, the third returning just now.
C10_Witness ==
  /\ seqLog = <<1, 2, 3>>
  /\ lost = 0
  /\ \E p \in Procs : Returning(p) /\ seqOut[p] = 3

\* Caller p is inside the deferred UnRef of a derived operation.
InDeferredUnRef(p) ==
  op[p] # "none" /\ pc[p] \in {"UnRefLock", "UnRefBody", "UnRefUnlock"}

\* C11. Idempotent seeding: an EnsureCounter whose InsertOne reaches the store
\* and meets the record returns nil and leaves seq as it is, so after any
\* number of EnsureCounter calls the first NextSeq returns 1; an InsertOne
\* that fails otherwise makes EnsureCounter return the error, and the error
\* decided by the round trip is what the caller gets.
C11_IdempotentSeed ==
  [][\A p \in Procs :
       /\ (AtStore(p, {"EnsureCounter"}) /\ pc'[p] # "OpStore") =>
            /\ (Up(p) /\ seq # Nil) => (~err'[p] /\ seq' = seq)
            /\ ~Up(p) => (err'[p] /\ seq' = seq)
       /\ (AtStore(p, {"NextSeq"}) /\ pc'[p] # "OpStore" /\ seq = 0 /\ ~err'[p])
            => seqOut'[p] = 1
       /\ (op[p] = "EnsureCounter" /\ InDeferredUnRef(p)) =>
            (err'[p] = err[p] /\ seq' >= seq)]_vars

\* C11 witness: an EnsureCounter is returning nil on a record that a NextSeq
\* has already moved to 1.
C11_Witness ==
  \E p \in Procs :
    /\ op[p] = "EnsureCounter" /\ pc[p] = "OpReturn" /\ ~err[p]
    /\ seq = 1 /\ seqLog = <<1>>

\* C12. Each derived operation releases the handle it acquired on every exit
\* path: when it returns, with nil or with a store error, the caller holds no
\* handle and every ref counts only the borrows of the other callers' running
\* operations (so it is what it was before the call when there are none); when
\* its Ref fails it returns that error with no UnRef and no round trip, the
\* pool and the store untouched.
C12_ReleasesOnEveryPath ==
  [][\A p \in Procs :
       /\ (pc[p] # "OpReturn" /\ pc'[p] = "OpReturn") =>
            /\ \A h \in Handles : held'[p][h] = 0 /\ ref'[h] = Outstanding(h)'
            /\ (\A q \in Procs \ {p} : pc'[q] \in {"idle", "OpReturn"})
                 => \A h \in Handles : ref'[h] = 0
       /\ (pc[p] = "RefUnlock" /\ op[p] # "none" /\ err[p] /\ pc'[p] # "RefUnlock") =>
            /\ pc'[p] = "OpReturn" /\ err'[p] /\ ret'[p] = Nil
            /\ UNCHANGED <<poolVars, storeVars>>]_vars

\* C12 witness: one operation is returning a store error after its deferred
\* UnRef, another is returning the error of its Ref, and no ref is left.
C12_Witness ==
  \E p \in Procs, q \in Procs :
    /\ pc[p] = "OpReturn" /\ err[p] /\ ret[p] # Nil
    /\ pc[q] = "OpReturn" /\ err[q] /\ ret[q] = Nil
    /\ \A h \in Handles : ref[h] = 0

\* C13. UnRef(h) with h non-nil lowers h's ref by exactly 1 from what it was
\* when the call took the lock and changes no other ref and no connection, also
\* when no borrow of h is outstanding; afterwards slot 0 still holds a minimal
\* ref and every handle's index is its slot.
C13_UnRefFrame ==
  [][\A p \in Procs :
       /\ (pc[p] = "UnRefBody" /\ pc'[p] = "UnRefUnlock") =>
            /\ ref' = [snap[p].ref EXCEPT ![s[p]] = @ - 1]
            /\ gen' = snap[p].gen
            /\ UNCHANGED connState
            /\ \A k \in Slots : ref'[clients'[1]] <= ref'[clients'[k]]
            /\ \A k \in Slots : index'[clients'[k]] = k - 1
            /\ {clients'[k] : k \in Slots} = Handles
       /\ (pc[p] \in {"UnRefLock", "UnRefUnlock"} /\ pc'[p] # pc[p]) =>
            UNCHANGED poolVars]_vars

\* C13 witness: an UnRef without a matching Ref has driven the ref of a handle
\* from 0 to -1 and heap.Fix has moved that handle up to slot 0.
C13_Witness ==
  \E p \in Procs :
    /\ pc[p] = "UnRefUnlock"
    /\ snap[p].ref[s[p]] = 0 /\ ref[s[p]] = -1
    /\ snap[p].index[s[p]] # 0 /\ index[s[p]] = 0

\* C14. Ref calls s.Ping if and only if the handle at slot 0 had ref 0 when the
\* call took the lock; when that ref was not 0 the call makes no Ping, no
\* Disconnect and no mongo.Connect: it only adds 1 to the ref, repairs the heap
\* at slot 0 and returns the handle.
C14_ProbeIffIdle ==
  \A p \in Procs :
    pc[p] \in {"RefConnect", "RefUnlock"} =>
      /\ snap[p].clients[1] = s[p]
      /\ "Ping" \in io[p] <=> snap[p].ref[s[p]] = 0
      /\ snap[p].ref[s[p]] # 0 =>
           /\ pc[p] = "RefUnlock" /\ ~err[p] /\ ret[p] = s[p]
           /\ gen = snap[p].gen
           /\ io[p] = {}
           /\ ref = [snap[p].ref EXCEPT ![s[p]] = @ + 1]
           /\ clients = Fix(HeapOf(snap[p].clients, snap[p].index), ref, 0).clients

\* C14 witness: every handle being borrowed, a Ref is returning the slot-0
\* handle without a Ping although its connection has dropped.
C14_Witness ==
  \E p \in Procs :
    /\ pc[p] = "RefUnlock" /\ io[p] = {}
    /\ snap[p].ref[s[p]] > 0
    /\ connState[s[p]] = "dead"

\* C15. In every state reached from the constructed pool by Ref, UnRef and
\* Close calls, c.clients holds each of the NumClients handles created by the
\* constructor exactly once (none added, dropped or repeated), and each
\* handle's index is the slot it occupies.
C15_PermutationAndIndex ==
  /\ Len(clients) = NumClients
  /\ Handles = 0..(NumClients - 1)
  /\ \A h \in Handles : \E k \in Slots : clients[k] = h
  /\ \A k \in Slots, m \in Slots : clients[k] = clients[m] => k = m
  /\ \A k \in Slots : index[clients[k]] = k - 1

\* C15 witness: after borrows, a release and a Close the handles stand in an
\* order other than the constructor's, the handle created first no longer in
\* slot 0.
C15_Witness ==
  /\ \A p \in Procs : pc[p] = "idle"
  /\ clients[1] # 0 /\ index[0] # 0
  /\ \A h \in Handles : connState[h] = "disconnected"
  /\ \E h \in Handles : ref[h] > 0

\* The places of a call between c.Lock() and the deferred c.Unlock().
LockedPcs ==
  {"RefTest", "RefConnect", "RefUnlock", "UnRefBody", "UnRefUnlock", "CloseLoop",
   "CloseUnlock"}

\* C16. Ping, Disconnect and mongo.Connect of Ref run under the pool lock: at
\* most one caller is between Lock and Unlock at any time, and from the moment
\* a Ref has the lock until it returns, every ref, every index, the slice and
\* the connection installed in every handle are what they were when the Ref
\* took the lock, apart from that Ref's own ref++, heap.Fix and reconnect of
\* its handle: no other Ref, UnRef or Close call is at work on them.
C16_ProbeUnderLock ==
  /\ \A p \in Procs, q \in Procs :
       (pc[p] \in LockedPcs /\ pc[q] \in LockedPcs) => p = q
  /\ \A p \in Procs : pc[p] \in LockedPcs => mutex = p
  /\ \A p \in Procs :
       pc[p] \in {"RefTest", "RefConnect", "RefUnlock"} =>
         LET took == pc[p] = "RefUnlock" /\ ~err[p]
             fixed == Fix(HeapOf(snap[p].clients, snap[p].index), ref, 0)
         IN  /\ ref = IF took THEN [snap[p].ref EXCEPT ![s[p]] = @ + 1] ELSE snap[p].ref
             /\ clients = IF took THEN fixed.clients ELSE snap[p].clients
             /\ index = IF took THEN fixed.index ELSE snap[p].index
             /\ gen[s[p]] \in {snap[p].gen[s[p]], snap[p].gen[s[p]] + 1}
             /\ \A h \in Handles \ {s[p]} : gen[h] = snap[p].gen[h]

\* C16 witness: one caller is at the reconnect inside Ref while the other one
\* waits for the lock in Close.
C16_Witness ==
  \E p \in Procs, q \in Procs :
    /\ pc[p] = "RefConnect" /\ io[p] = {"Ping", "Disconnect"} /\ mutex = p
    /\ pc[q] = "CloseLock"

\* Handle h is borrowed: some caller holds it.
Borrowed(h) == \E p \in Procs : held[p][h] > 0

\* C17. When callers release only what they borrowed, Ref never disconnects
\* and never replaces the connection of a borrowed handle: a connection is
\* replaced only by a Ref that saw ref 0 on the slot-0 handle and pinged it,
\* and only Close disconnects a handle whose ref is not 0; so the connection
\* installed in a handle stays the same object for as long as a caller holds it.
C17_NoSwapWhileBorrowed ==
  [][\A h \in Handles :
       /\ gen'[h] # gen[h] =>
            /\ ref[h] = 0 /\ ~Borrowed(h)
            /\ \E p \in Procs :
                 /\ pc[p] = "RefConnect" /\ s[p] = h /\ "Ping" \in io[p]
                 /\ snap[p].ref[h] = 0 /\ snap[p].clients[1] = h
       /\ (connState[h] # "disconnected" /\ connState'[h] = "disconnected"
           /\ \A p \in Procs : pc[p] # "CloseLoop") =>
            ref[h] = 0 /\ ~Borrowed(h)
       /\ (Borrowed(h) /\ Borrowed(h)') => gen'[h] = gen[h]]_vars

\* C17 witness: after a Close a Ref is returning the idle slot-0 handle with a
\* connection it has just installed, while a caller still holds another handle
\* whose connection Close disconnected and nobody replaced.
C17_Witness ==
  \E p \in Procs, k \in Handles :
    /\ pc[p] = "RefUnlock" /\ ~err[p]
    /\ gen[s[p]] = snap[p].gen[s[p]] + 1
    /\ k # s[p] /\ Borrowed(k) /\ ref[k] > 0
    /\ connState[k] = "disconnected" /\ gen[k] = 0

\* C18. When mongo.Connect fails inside Ref, the handle is still in slot 0 with
\* ref 0 and holds its old connection, now disconnected; the next Ref reads
\* that same handle at c.clients[0] with ref 0, so it pings it again and
\* retries mongo.Connect; and a Ref that raises a ref from 0 to 1 has pinged
\* the handle with success or has just installed a new connection in it.
C18_RetryAfterFailedReconnect ==
  \A p \in Procs :
    /\ (pc[p] = "RefUnlock" /\ err[p]) =>
         /\ clients[1] = s[p] /\ index[s[p]] = 0 /\ ref[s[p]] = 0
         /\ gen[s[p]] = snap[p].gen[s[p]]
         /\ connState[s[p]] = "disconnected"
    /\ (pc[p] = "RefTest" /\ failed # Nil) =>
         /\ s[p] = failed /\ ref[failed] = 0
         /\ connState[failed] = "disconnected"
    /\ (pc[p] = "RefUnlock" /\ ~err[p] /\ snap[p].ref[s[p]] = 0) =>
         /\ connState[s[p]] # "disconnected"
         /\ \/ io[p] = {"Ping"} /\ gen[s[p]] = snap[p].gen[s[p]]
            \/ "Connect" \in io[p] /\ gen[s[p]] = snap[p].gen[s[p]] + 1

\* C19. Close leaves every ref, every index and the slice as they were and
\* installs nothing; the pool has no closed state: a Ref called after Close
\* runs as any other, and when the slot-0 handle has ref 0 it pings it, finds
\* the connection Close disconnected, and, mongo.Connect succeeding, returns
\* the handle with a new connection installed.
C19_CloseKeepsPoolUsable ==
  /\ phase = "open"
  /\ \A p \in Procs :
       /\ pc[p] \in {"CloseLoop", "CloseUnlock"} =>
            /\ ref = snap[p].ref /\ index = snap[p].index
            /\ clients = snap[p].clients /\ gen = snap[p].gen
       /\ (pc[p] \in {"RefConnect", "RefUnlock"} /\ snap[p].ref[s[p]] = 0) =>
            /\ "Ping" \in io[p]
            /\ pc[p] = "RefConnect" =>
                 io[p] = {"Ping", "Disconnect"} /\ connState[s[p]] = "disconnected"
            /\ pc[p] = "RefUnlock" =>
                 \/ err[p] /\ ret[p] = Nil /\ gen = snap[p].gen
                 \/ /\ ~err[p] /\ ret[p] = s[p] /\ ref[s[p]] = 1
                    /\ connState[s[p]] # "disconnected"
                    /\ "Connect" \in io[p] => gen[s[p]] = snap[p].gen[s[p]] + 1

\* C19 witness: a Ref that took the lock after a Close had disconnected every
\* handle, one of them still borrowed, is returning the slot-0 handle with a
\* new, live connection.
C19_Witness ==
  \E p \in Procs :
    /\ pc[p] = "RefUnlock" /\ ~err[p]
    /\ io[p] = {"Ping", "Disconnect", "Connect"}
    /\ \A h \in Handles \ {s[p]} : connState[h] = "disconnected"
    /\ \E h \in Handles : snap[p].ref[h] > 0
    /\ gen[s[p]] = 1 /\ connState[s[p]] = "live" /\ ref[s[p]] = 1

\* C20. No deadlock: with calls that go on once made and round trips that
\* return, every Ref, UnRef, Close, EnsureCounter and NextSeq call of every
\* caller eventually returns, and it returns with the mutex not held by the
\* caller, the return after a failed reconnect included.
C20_EveryCallReturns ==
  \A p \in Procs : (pc[p] # "idle") ~> (pc[p] = "idle" /\ mutex # p)

\* C20 witness: every caller is back from its calls, the last Ref having
\* returned the error of a failed reconnect, and the mutex is free.
C20_Witness ==
  /\ \A p \in Procs : pc[p] = "idle"
  /\ calls = MaxFairCalls
  /\ failed # Nil
  /\ mutex = NoProc

====
